---- MODULE Spec2Model ----
(***************************************************************************)
(* Model of the deAPI illustration job protocol of the image_album plugin: *)
(*   DeAPIIllustrationProvider.to_illustration / _poll_for_result          *)
(*     (illustration_providers/deapi_provider.py)                          *)
(*   wait_for_result / _subscribe_private_channel                          *)
(*     (illustration_providers/deapi_websocket.py)                         *)
(*                                                                         *)
(* Two threads: the caller (to_illustration, blocked in done.wait, in      *)
(* time.sleep or returned) and the listener thread run_ws that owns the    *)
(* WebSocket connection and runs the on_message/on_error/on_close          *)
(* callbacks.  The remote service and the network are the environment:     *)
(* every HTTP response and every inbound frame is chosen with \E.          *)
(*                                                                         *)
(* Time is in seconds.  The clock advances while the caller is blocked:    *)
(* in done.wait(timeout) (by WaitQuantum steps, never past the wait's      *)
(* deadline) and in time.sleep(POLL_INTERVAL).  HTTP round trips are       *)
(* instantaneous on this clock.                                            *)
(***************************************************************************)
EXTENDS Integers, Sequences, FiniteSets, TLC

\* ------------------------------------------------------------- constants

\* deapi_provider.py:25
MAX_WAIT_TIME == 300

\* deapi_provider.py:145
POLL_INTERVAL == 2

\* Model bounds.
\* Step of the clock while the caller is blocked in done.wait.
WaitQuantum == 150

\* "processing" answers of the status endpoint before its final answer, when
\* polling is checked alone.
MaxPending == 151

\* Inbound frames, other than status events of the awaited job, that the
\* environment delivers on one connection.
MaxMsgs == 2

\* ------------------------------------------------------------ data model

\* Python's None, for values that are otherwise records.
None == [none |-> TRUE]

\* A configured string (api_key, client_id) as the caller passes it: None or
\* a sequence of characters.
NoneStr == [isNone |-> TRUE, chars |-> <<>>]

Str(s) == [isNone |-> FALSE, chars |-> s]

RawStrings == {NoneStr, Str(<<>>), Str(<<" ">>), Str(<<" ", "k", " ">>)}

IsSpace(c) == c = " "

RECURSIVE LStrip(_)
LStrip(s) == IF s # <<>> /\ IsSpace(Head(s)) THEN LStrip(Tail(s)) ELSE s

RECURSIVE RStrip(_)
RStrip(s) ==
  IF s # <<>> /\ IsSpace(s[Len(s)]) THEN RStrip(SubSeq(s, 1, Len(s) - 1)) ELSE s

\* str.strip()
Strip(s) == RStrip(LStrip(s))

\* (x or "")
OrEmpty(raw) == IF raw.isNone THEN <<>> ELSE raw.chars

\* (x or "").strip() without the strip: the mutant of __init__.
ConfiguredNoStrip(raw) == OrEmpty(raw)

\* __init__: self.api_key = (api_key or "").strip(), self.client_id likewise.
Configured(raw) == Strip(OrEmpty(raw))

\* Truthiness of a str.
Truthy(s) == s # <<>>

\* Job identifiers on the channel; "" stands for a missing request_id.
RequestIds == {"r1", "r2"}

\* The identifier the service gives the submitted job.
SubmittedIds == {"r1"}

Urls == {"u1", "u2"}

\* "" stands for a missing or empty result_url.
NoUrl == ""

JobStatuses == {"done", "error", "processing"}

\* The decoded data of a request.status.updated event.
StatusPayloads ==
  [request_id : RequestIds, status : JobStatuses, result_url : Urls \cup {NoUrl}]

\* The data of a frame that is no status event.
NoPayload == [request_id |-> "", status |-> "", result_url |-> NoUrl]

\* An inbound frame: its event name, the socket_id of its data (""
\* when absent), the decoded data of a status event, and whether json.loads
\* raises on the frame (event "invalid") or on its data field (badData).
Msg(e, sid, p, bad) == [event |-> e, socket_id |-> sid, data |-> p, badData |-> bad]

Messages ==
  {Msg("invalid", "", NoPayload, FALSE), Msg("other", "", NoPayload, FALSE)}
  \cup {Msg("pusher:connection_established", s, NoPayload, FALSE) : s \in {"", "s1"}}
  \cup {Msg("pusher:connection_established", "", NoPayload, TRUE)}
  \cup {Msg("request.status.updated", "", p, FALSE) : p \in StatusPayloads}
  \cup {Msg("request.status.updated", "", NoPayload, TRUE)}

\* Image.open(io.BytesIO(resp.content)).convert("RGB") of the bytes at url.
Image(url) == [img |-> url]

\* HTTP status codes of the responses the environment may give.
HttpCodes == {200, 500}

\* ----------------------------------------------------------------- state

VARIABLES
  \* generate_image: its position, the settings it reads, the photo it loaded
  \* and its local variable img
  gpc, convertToIllustration, illustrationProvider, photo, album_img,
  \* configuration as passed to __init__, and the provider's fields
  rawApiKey, rawClientId, api_key, client_id,
  \* the caller (to_illustration)
  pc, request_id, ws_result, out_img, retReason,
  \* the clock and the instants the caller records
  now, submittedAt, waitDeadline, pollStart,
  \* wait_for_result's closure state shared by both threads
  result_holder, done, ws_ref,
  \* the listener thread and its connection
  lpc, conn, closeReq, subscribed, authFailed, authSocket, authChannel, subChannel,
  \* what happened, for the properties
  firstSignal, rtOutcome, doneMsg, pollInvoked, pollRid, pollInput,
  nSubmit, nConnect, nIgnored, nAuthReq, nSubscribe,
  nStatusReq, nSleeps, nPending, nImgGet, lastReqElapsed, lastStatusUrl

genVars == <<gpc, convertToIllustration, illustrationProvider, photo, album_img>>

configVars == <<rawApiKey, rawClientId, api_key, client_id>>

callerVars == <<pc, request_id, ws_result, out_img, retReason>>

clockVars == <<now, submittedAt, waitDeadline, pollStart>>

sharedVars == <<result_holder, done, ws_ref>>

listenerVars ==
  <<lpc, conn, closeReq, subscribed, authFailed, authSocket, authChannel,
    subChannel>>

wsCountVars == <<nConnect, nIgnored, nAuthReq, nSubscribe>>

pollCountVars ==
  <<pollInvoked, pollRid, pollInput, nStatusReq, nSleeps, nPending,
    lastReqElapsed, lastStatusUrl>>

histVars == <<firstSignal, rtOutcome, doneMsg, nSubmit, nImgGet>>

vars ==
  <<genVars, configVars, callerVars, clockVars, sharedVars, listenerVars, wsCountVars,
    pollCountVars, histVars>>

TypeOK ==
  /\ rawApiKey \in RawStrings /\ rawClientId \in RawStrings
  /\ gpc \in {"direct", "loaded", "illustrating", "check", "done", "raised"}
  /\ convertToIllustration \in BOOLEAN
  /\ pc \in {"idle", "start", "submitted", "waiting", "ws_read", "ws_timedout",
             "after_ws", "poll_start", "returned"}
  /\ lpc \in {"idle", "start", "registered", "open", "msg_done_set",
              "msg_error_set", "msg_close", "on_error", "teardown", "exited"}
  /\ conn \in {"none", "open", "closed"}
  /\ done \in BOOLEAN /\ ws_ref \in BOOLEAN /\ closeReq \in BOOLEAN
  /\ now \in 0..(3 * MAX_WAIT_TIME)

Init ==
  /\ gpc = "direct"
  /\ convertToIllustration = TRUE
  /\ illustrationProvider = "deapi"
  /\ photo = Image("photo")
  /\ album_img = Image("photo")
  /\ rawApiKey \in RawStrings
  /\ rawClientId \in RawStrings
  /\ api_key = Configured(rawApiKey)
  /\ client_id = Configured(rawClientId)
  /\ pc = "start"
  /\ request_id = ""
  /\ ws_result = None
  /\ out_img = None
  /\ retReason = ""
  /\ now = 0 /\ submittedAt = 0 /\ waitDeadline = 0 /\ pollStart = 0
  /\ result_holder = None /\ done = FALSE /\ ws_ref = FALSE
  /\ lpc = "idle" /\ conn = "none" /\ closeReq = FALSE
  /\ subscribed = FALSE /\ authFailed = FALSE /\ authSocket = ""
  /\ authChannel = <<>> /\ subChannel = <<>>
  /\ firstSignal = "" /\ rtOutcome = "" /\ doneMsg = None
  /\ pollInvoked = FALSE /\ pollRid = "" /\ pollInput = None
  /\ nSubmit = 0 /\ nConnect = 0 /\ nIgnored = 0
  /\ nAuthReq = 0 /\ nSubscribe = 0
  /\ nStatusReq = 0 /\ nSleeps = 0 /\ nPending = 0 /\ nImgGet = 0
  /\ lastReqElapsed = 0 /\ lastStatusUrl = NoUrl

\* ------------------------------------------------ the environment's answers

\* A response to the img2img POST: the call raised (connection failure,
\* timeout), or a status code and the request_id of the body ("" if absent).
SubmitResponses ==
  [raised : BOOLEAN, code : HttpCodes, request_id : SubmittedIds \cup {""}]

\* A response to GET request-status/{request_id}: the call raised, a
\* non-success status code, or a body with the job's status and result_url.
StatusResponse(raised, code, status, url) ==
  [raised |-> raised, code |-> code, status |-> status, result_url |-> url]

StatusResponses ==
  {StatusResponse(TRUE, 200, "processing", NoUrl),
   StatusResponse(FALSE, 500, "processing", NoUrl),
   StatusResponse(FALSE, 200, "processing", NoUrl),
   StatusResponse(FALSE, 200, "error", NoUrl)}
  \cup {StatusResponse(FALSE, 200, "done", u) : u \in Urls \cup {NoUrl}}

\* A response to the GET of a result URL, or to the POST broadcasting/auth.
PlainResponses == [raised : BOOLEAN, code : HttpCodes]

Min(a, b) == IF a < b THEN a ELSE b

\* ------------------------------------------------------ decisions of the code

\* deapi_provider.py:111  if self.client_id:
UseRealtime(cid) == Truthy(cid)

\* deapi_provider.py:120  if ws_result and ws_result.get("result_url"):
HasResultUrl(res) == res # None /\ res.result_url # NoUrl

\* A loop condition that still holds at the deadline itself.
PollGuardLate(t, start) == (t - start) <= MAX_WAIT_TIME

\* A loop condition that gives up one interval early.
PollGuardShort(t, start) == (t - start) < MAX_WAIT_TIME - POLL_INTERVAL

\* deapi_provider.py:150  while (time.monotonic() - start) < MAX_WAIT_TIME:
PollGuard(t, start) == (t - start) < MAX_WAIT_TIME

\* A poll that takes any HTTP status for a success.
StatusCodeIgnored(code) == TRUE

\* deapi_provider.py:152, 165  if resp.status_code != 200: (negated)
StatusCodeOk(code) == code = 200

\* A poll that does not look for the status "error".
JobErroredNever(status) == FALSE

\* deapi_provider.py:170  if status == "error":
JobErrored(status) == status = "error"

\* A submission that goes on without a request_id.
HasRequestIdAlways(rid) == TRUE

\* deapi_provider.py:105  if not request_id: (negated)
HasRequestId(rid) == rid # ""

\* A provider that returns what the real-time path gave without polling.
ShouldPollNever(img) == FALSE

\* deapi_provider.py:129  if out_img is None:
ShouldPoll(img) == img = None

\* done.wait() without a timeout.
WaitExpiredNever(t, deadline) == FALSE

\* deapi_websocket.py:82  done.wait(timeout=timeout) gives up at the deadline.
WaitExpired(t, deadline) == t >= deadline

\* A filter that forgets to compare the request_id.
MatchesAnyJob(m, rid) ==
  /\ m.event = "request.status.updated"
  /\ ~m.badData

\* deapi_websocket.py:44-46  the event is a status update of the awaited job.
Matches(m, rid) ==
  /\ m.event = "request.status.updated"
  /\ ~m.badData
  /\ m.data.request_id = rid

\* The terminal state the real-time path reached, from what first set done.
Outcome(cause) ==
  CASE cause = "done_event" -> "Done"
    [] cause = "error_event" -> "Failed"
    [] OTHER -> "Unavailable"

\* ------------------------------------------------------------ the caller

\* to_illustration returns v.
Return(v, why) ==
  /\ pc' = "returned"
  /\ out_img' = v
  /\ retReason' = why

\* deapi_provider.py:129-134: with the image of the real-time path (or
\* None), poll or return it.
Proceed(img) ==
  IF ShouldPoll(img)
    THEN pc' = "poll_start" /\ UNCHANGED <<out_img, retReason>>
    ELSE Return(img, "ws_image")

\* deapi_provider.py:65-67
NoApiKey ==
  /\ pc = "start"
  /\ ~Truthy(api_key)
  /\ Return(None, "no_api_key")
  /\ UNCHANGED <<genVars, configVars, request_id, ws_result, clockVars, sharedVars,
                 listenerVars, wsCountVars, pollCountVars, histVars>>

\* deapi_provider.py:69-107 (and 136-138 when the POST raises)
Submit(resp) ==
  /\ pc = "start"
  /\ Truthy(api_key)
  /\ nSubmit' = nSubmit + 1
  /\ IF resp.raised
       THEN Return(None, "exception") /\ UNCHANGED <<request_id, submittedAt>>
       ELSE IF resp.code # 200
         THEN Return(None, "submit_http") /\ UNCHANGED <<request_id, submittedAt>>
         ELSE IF ~HasRequestId(resp.request_id)
           THEN Return(None, "no_request_id")
                /\ UNCHANGED <<request_id, submittedAt>>
           ELSE /\ pc' = "submitted"
                /\ request_id' = resp.request_id
                /\ submittedAt' = now
                /\ UNCHANGED <<out_img, retReason>>
  /\ UNCHANGED <<genVars, configVars, ws_result, now, waitDeadline, pollStart,
                 sharedVars, listenerVars, wsCountVars, pollCountVars,
                 firstSignal, rtOutcome, doneMsg, nImgGet>>

\* deapi_provider.py:111-119 and deapi_websocket.py:31-33, 79-82: the call of
\* wait_for_result up to done.wait(timeout=timeout); thread.start() makes
\* run_ws runnable.
StartRealtime ==
  /\ pc = "submitted"
  /\ UseRealtime(client_id)
  /\ pc' = "waiting"
  /\ lpc' = "start"
  /\ waitDeadline' = now + MAX_WAIT_TIME
  /\ UNCHANGED <<genVars, configVars, request_id, ws_result, out_img, retReason, now,
                 submittedAt, pollStart, sharedVars, conn, closeReq,
                 subscribed, authFailed, authSocket, authChannel, subChannel, wsCountVars,
                 pollCountVars, histVars>>

\* deapi_provider.py:110-111, 129: no client_id, out_img stays None.
SkipRealtime ==
  /\ pc = "submitted"
  /\ ~UseRealtime(client_id)
  /\ Proceed(None)
  /\ UNCHANGED <<genVars, configVars, request_id, ws_result, clockVars, sharedVars, listenerVars, wsCountVars,
                 pollCountVars, histVars>>

\* deapi_websocket.py:82: time passes while the caller is blocked in
\* done.wait and the Event is not set.
Tick ==
  /\ pc = "waiting"
  /\ ~done
  /\ now < waitDeadline
  /\ now' = Min(now + WaitQuantum, waitDeadline)
  /\ UNCHANGED <<genVars, configVars, callerVars, submittedAt, waitDeadline, pollStart,
                 sharedVars, listenerVars, wsCountVars, pollCountVars,
                 histVars>>

\* deapi_websocket.py:82: done.wait returns True.
WaitSignalled ==
  /\ pc = "waiting"
  /\ done
  /\ pc' = "ws_read"
  /\ rtOutcome' = Outcome(firstSignal)
  /\ UNCHANGED <<genVars, configVars, request_id, ws_result, out_img, retReason,
                 clockVars, sharedVars, listenerVars, wsCountVars,
                 pollCountVars, firstSignal, doneMsg, nSubmit, nImgGet>>

\* deapi_websocket.py:82: done.wait returns False at the deadline.
WaitTimeout ==
  /\ pc = "waiting"
  /\ ~done
  /\ WaitExpired(now, waitDeadline)
  /\ pc' = "ws_timedout"
  /\ rtOutcome' = "TimedOut"
  /\ UNCHANGED <<genVars, configVars, request_id, ws_result, out_img, retReason,
                 clockVars, sharedVars, listenerVars, wsCountVars,
                 pollCountVars, firstSignal, doneMsg, nSubmit, nImgGet>>

\* deapi_websocket.py:83  return result_holder[0]
ReadResult ==
  /\ pc = "ws_read"
  /\ ws_result' = result_holder
  /\ pc' = "after_ws"
  /\ UNCHANGED <<genVars, configVars, request_id, out_img, retReason, clockVars,
                 sharedVars, listenerVars, wsCountVars, pollCountVars,
                 histVars>>

\* deapi_websocket.py:84-86  if ws_ref: ws_ref[0].close(); return None
CloseOnTimeout ==
  /\ pc = "ws_timedout"
  /\ IF ws_ref
       THEN /\ closeReq' = TRUE
            /\ conn' = IF conn = "open" THEN "closed" ELSE conn
       ELSE UNCHANGED <<closeReq, conn>>
  /\ ws_result' = None
  /\ pc' = "after_ws"
  /\ UNCHANGED <<genVars, configVars, request_id, out_img, retReason, clockVars,
                 sharedVars, lpc, subscribed, authFailed, authSocket, authChannel, subChannel,
                 wsCountVars, pollCountVars, histVars>>

\* deapi_provider.py:120-134 (and 136-138 when the GET raises)
AfterWs(imgResp) ==
  /\ pc = "after_ws"
  /\ IF HasResultUrl(ws_result)
       THEN /\ nImgGet' = nImgGet + 1
            /\ IF imgResp.raised
                 THEN Return(None, "exception")
                 ELSE IF imgResp.code = 200
                   THEN Proceed(Image(ws_result.result_url))
                   ELSE Proceed(None)
       ELSE /\ Proceed(None)
            /\ UNCHANGED nImgGet
  /\ UNCHANGED <<genVars, configVars, request_id, ws_result, clockVars, sharedVars,
                 listenerVars, wsCountVars, pollCountVars, firstSignal,
                 rtOutcome, doneMsg, nSubmit>>

\* The status response of a job that is not finished.
PendingResponse == StatusResponse(FALSE, 200, "processing", NoUrl)

\* The local state of _poll_for_result: the clock, what it has done so far
\* and, once it has returned, its value (out) and the branch that returned.
PollEntry(t) ==
  [t |-> t, nReq |-> 0, nSleeps |-> 0, nPending |-> 0, nImg |-> 0,
   lastElapsed |-> 0, lastUrl |-> NoUrl, out |-> None, why |-> ""]

\* deapi_provider.py:174  time.sleep(POLL_INTERVAL)
Sleep(st) == [st EXCEPT !.nSleeps = @ + 1, !.t = @ + POLL_INTERVAL]

\* deapi_provider.py:150-174: one evaluation of the loop condition and, when
\* it holds, one pass of the loop body with the status response resp and the
\* response imgResp of the GET of the result URL.  A state that has returned
\* (why is set) stays as it is.  An exception of a GET leaves through
\* to_illustration's except clause (136-138), which returns None.
Pass(st, start, resp, imgResp) ==
  IF st.why # "" THEN st
  ELSE IF ~PollGuard(st.t, start) THEN [st EXCEPT !.why = "poll_timeout"]
  ELSE
    LET s1 == [st EXCEPT !.nReq = @ + 1, !.lastElapsed = st.t - start] IN
    IF resp.raised THEN [s1 EXCEPT !.why = "exception"]
    ELSE IF ~StatusCodeOk(resp.code) THEN [s1 EXCEPT !.why = "poll_http"]
    ELSE IF resp.status = "done"
      THEN
        LET s2 == [s1 EXCEPT !.lastUrl = resp.result_url] IN
        IF resp.result_url = NoUrl THEN [s2 EXCEPT !.why = "poll_no_url"]
        ELSE IF imgResp.raised
          THEN [s2 EXCEPT !.nImg = @ + 1, !.why = "exception"]
        ELSE IF ~StatusCodeOk(imgResp.code)
          THEN [s2 EXCEPT !.nImg = @ + 1, !.why = "poll_img_http"]
        ELSE [s2 EXCEPT !.nImg = @ + 1, !.out = Image(resp.result_url),
                        !.why = "poll_image"]
    ELSE IF JobErrored(resp.status) THEN [s1 EXCEPT !.why = "poll_job_error"]
    ELSE Sleep([s1 EXCEPT !.nPending = @ + 1])

\* k consecutive passes with the same responses: the first half of them,
\* then the rest from the state h they reach (split in halves, so that the
\* evaluation nests log k deep and not k deep; h is bound to a value, so
\* that it is computed once).
RECURSIVE Passes(_, _, _, _, _)
Passes(st, k, start, resp, imgResp) ==
  IF k = 0 \/ st.why # "" THEN st
  ELSE IF k = 1 THEN Pass(st, start, resp, imgResp)
  ELSE CHOOSE r \in {Passes(h, k - (k \div 2), start, resp, imgResp) :
                       h \in {Passes(st, k \div 2, start, resp, imgResp)}} :
         TRUE

\* Passes after which the loop condition has failed whatever the responses:
\* every pass that does not return sleeps POLL_INTERVAL.
EnoughPasses == (MAX_WAIT_TIME \div POLL_INTERVAL) + 2

\* deapi_provider.py:150-177: the loop of _poll_for_result, started at
\* `start`, when the service answers the first n status requests with
\* "processing" and every later one with `term`.
PollLoop(st, start, n, term, imgResp) ==
  CHOOSE r \in {Passes(h, EnoughPasses, start, term, imgResp) :
                  h \in {Passes(st, n, start, PendingResponse, imgResp)}} :
    TRUE

\* deapi_provider.py:129-134, 140-177: _poll_for_result(request_id, headers)
\* and the return of to_illustration.
PollForResult(n, term, imgResp) ==
  /\ pc = "poll_start"
  /\ pollInput' = [n |-> n, term |-> term, imgResp |-> imgResp]
  /\ \E r \in {PollLoop(PollEntry(now), now, n, term, imgResp)} :
       /\ Return(r.out, r.why)
       /\ now' = r.t
       /\ nStatusReq' = r.nReq
       /\ nSleeps' = r.nSleeps
       /\ nPending' = r.nPending
       /\ nImgGet' = nImgGet + r.nImg
       /\ lastReqElapsed' = r.lastElapsed
       /\ lastStatusUrl' = r.lastUrl
  /\ pollStart' = now
  /\ pollInvoked' = TRUE
  /\ pollRid' = request_id
  /\ UNCHANGED <<genVars, configVars, request_id, ws_result, submittedAt, waitDeadline,
                 sharedVars, listenerVars, wsCountVars, firstSignal, rtOutcome,
                 doneMsg, nSubmit>>

\* The GET of the result URL is reached: a done status with a result_url.
FetchesImage(resp) ==
  ~resp.raised /\ resp.code = 200 /\ resp.status = "done"
  /\ resp.result_url # NoUrl

OkResponse == [raised |-> FALSE, code |-> 200]

\* The answers of the service to one call of _poll_for_result: n times
\* "processing", then `term` for good, and the answer to the GET of the
\* result URL.  Each distinct behaviour of the service is listed once: a
\* service that never finishes is n = 0 with term "processing", and the
\* answer to a GET that is never made is left at OkResponse.
PollInputs(runs) ==
  {x \in runs \X StatusResponses \X PlainResponses :
     /\ (x[2] = PendingResponse => x[1] = 0)
     /\ (~FetchesImage(x[2]) => x[3] = OkResponse)}

\* How many "processing" answers the service gives before its final one,
\* when polling follows the real-time path.
PendingRuns == {0, 2}

CallerNext ==
  \/ NoApiKey
  \/ \E resp \in SubmitResponses : Submit(resp)
  \/ StartRealtime
  \/ SkipRealtime
  \/ Tick
  \/ WaitSignalled
  \/ WaitTimeout
  \/ ReadResult
  \/ CloseOnTimeout
  \/ \E imgResp \in PlainResponses : AfterWs(imgResp)
  \/ \E x \in PollInputs(PendingRuns) : PollForResult(x[1], x[2], x[3])

\* ------------------------------------------------------ the listener thread

\* threading.Event.set(): the first call is the one that wakes the caller.
Signal(cause) ==
  /\ done' = TRUE
  /\ firstSignal' = IF done THEN firstSignal ELSE cause

\* deapi_websocket.py:70-76: run_ws builds the WebSocketApp and registers it.
Register ==
  /\ lpc = "start"
  /\ ws_ref' = TRUE
  /\ lpc' = "registered"
  /\ UNCHANGED <<genVars, configVars, callerVars, clockVars, result_holder, done, conn,
                 closeReq, subscribed, authFailed, authSocket, authChannel, subChannel, wsCountVars,
                 pollCountVars, histVars>>

\* What run_forever may do when it starts: connect, fail to connect, or, when
\* close() was already called on the WebSocketApp, give up without connecting.
ConnectOutcomes == {"open", "fail", "aborted"}

\* deapi_websocket.py:77: ws.run_forever() opens the connection.  A close()
\* made before run_forever started may or may not stop it from connecting.
Connect(outcome) ==
  /\ lpc = "registered"
  /\ outcome = "aborted" => closeReq
  /\ CASE outcome = "open" ->
            /\ conn' = "open"
            /\ lpc' = "open"
            /\ nConnect' = nConnect + 1
       [] outcome = "fail" ->
            /\ lpc' = "on_error"
            /\ UNCHANGED <<conn, nConnect>>
       [] OTHER ->
            /\ lpc' = "teardown"
            /\ UNCHANGED <<conn, nConnect>>
  /\ UNCHANGED <<genVars, configVars, callerVars, clockVars, sharedVars, closeReq,
                 subscribed, authFailed, authSocket, authChannel, subChannel, nIgnored, nAuthReq,
                 nSubscribe, pollCountVars, histVars>>

\* deapi_websocket.py:93  channel = f"private-client.{client_id}"
Channel(cid) == <<"private-client.">> \o cid

\* A handshake that subscribes whatever the authentication answered.
SubscribeWithoutAuthCheck(socket_id, auth) ==
  /\ nAuthReq' = nAuthReq + 1
  /\ authSocket' = socket_id
  /\ authChannel' = Channel(client_id)
  /\ subscribed' = TRUE
  /\ nSubscribe' = nSubscribe + 1
  /\ subChannel' = Channel(client_id)
  /\ authFailed' = (authFailed \/ auth.raised \/ auth.code # 200)

\* deapi_websocket.py:89-116: _subscribe_private_channel with the response
\* of the authentication POST: the request carries socket_id and the channel
\* name; on success the subscribe message for that channel is sent.
SubscribePrivateChannel(socket_id, auth) ==
  /\ nAuthReq' = nAuthReq + 1
  /\ authSocket' = socket_id
  /\ authChannel' = Channel(client_id)
  /\ IF auth.raised
       THEN UNCHANGED <<authFailed, subscribed, nSubscribe, subChannel>>
       ELSE IF auth.code # 200
         THEN /\ authFailed' = TRUE
              /\ UNCHANGED <<subscribed, nSubscribe, subChannel>>
         ELSE /\ subscribed' = TRUE
              /\ nSubscribe' = nSubscribe + 1
              /\ subChannel' = Channel(client_id)
              /\ UNCHANGED authFailed

\* A dispatcher that hands over the next frame while the handler of the
\* previous one has not returned yet.
DispatchingInsideHandler(l) == l \in {"open", "msg_close"}

\* deapi_websocket.py:77: run_forever calls on_message for one frame at a
\* time, on the listener thread, while the connection runs.
Dispatching(l) == l = "open"

\* deapi_websocket.py:37, 40, 43, 45: the handling of the frame raises:
\* json.loads of the frame or of its data field fails, or the
\* authentication request raises.
HandlerRaises(m, auth) ==
  \/ m.event = "invalid"
  \/ m.badData
  \/ /\ m.event = "pusher:connection_established"
     /\ m.socket_id # ""
     /\ auth.raised

\* A handler without its try/except: the exception reaches run_forever,
\* which calls on_error.
ExceptionReachesRunForever == "on_error"

\* deapi_websocket.py:59-60: the except clause logs and the handler returns;
\* run_forever goes on dispatching.
AfterHandlerException == "open"

\* deapi_websocket.py:35-60: on_message up to the first write of shared
\* state; an exception of json.loads or of the authentication request is
\* swallowed by the handler's except clause.
OnMessage(m, auth) ==
  /\ Dispatching(lpc)
  /\ conn = "open"
  /\ Matches(m, request_id) \/ nIgnored < MaxMsgs
  /\ nIgnored' = IF Matches(m, request_id) THEN nIgnored ELSE nIgnored + 1
  /\ IF m.event = "pusher:connection_established" /\ ~m.badData
        /\ m.socket_id # ""
       THEN /\ SubscribePrivateChannel(m.socket_id, auth)
            /\ lpc' = IF HandlerRaises(m, auth) THEN AfterHandlerException
                                                 ELSE lpc
            /\ UNCHANGED result_holder
       ELSE /\ UNCHANGED <<nAuthReq, authSocket, authChannel, subChannel,
                           authFailed, subscribed, nSubscribe>>
            /\ IF Matches(m, request_id) /\ m.data.status = "done"
                 THEN result_holder' = m.data /\ lpc' = "msg_done_set"
                 ELSE IF Matches(m, request_id) /\ m.data.status = "error"
                   THEN lpc' = "msg_error_set" /\ UNCHANGED result_holder
                   ELSE /\ lpc' = IF HandlerRaises(m, auth)
                                    THEN AfterHandlerException ELSE lpc
                        /\ UNCHANGED result_holder
  /\ doneMsg' = IF /\ doneMsg = None
                     /\ m.event = "request.status.updated"
                     /\ ~m.badData
                     /\ m.data.request_id = request_id
                     /\ m.data.status = "done"
                  THEN m.data
                  ELSE doneMsg
  /\ UNCHANGED <<genVars, configVars, callerVars, clockVars, done, ws_ref, conn,
                 closeReq, nConnect, pollCountVars, firstSignal, rtOutcome,
                 nSubmit, nImgGet>>

\* A handler that sets the Event while the payload is not in result_holder.
MsgSignalBeforeStore ==
  /\ lpc \in {"msg_done_set", "msg_error_set"}
  /\ Signal(IF lpc = "msg_done_set" THEN "done_event" ELSE "error_event")
  /\ result_holder' = None
  /\ lpc' = "msg_close"
  /\ UNCHANGED <<genVars, configVars, callerVars, clockVars, ws_ref, conn,
                 closeReq, subscribed, authFailed, authSocket, authChannel,
                 subChannel, wsCountVars, pollCountVars, rtOutcome, doneMsg,
                 nSubmit, nImgGet>>

\* deapi_websocket.py:53, 57: done.set() in on_message.
MsgSignal ==
  /\ lpc \in {"msg_done_set", "msg_error_set"}
  /\ Signal(IF lpc = "msg_done_set" THEN "done_event" ELSE "error_event")
  /\ lpc' = "msg_close"
  /\ UNCHANGED <<genVars, configVars, callerVars, clockVars, result_holder, ws_ref, conn,
                 closeReq, subscribed, authFailed, authSocket, authChannel, subChannel, wsCountVars,
                 pollCountVars, rtOutcome, doneMsg, nSubmit, nImgGet>>

\* A handler that returns after done.set() and leaves the closing to the
\* remote peer.
MsgReturn ==
  /\ lpc = "msg_close"
  /\ lpc' = "open"
  /\ UNCHANGED <<genVars, configVars, callerVars, clockVars, sharedVars, conn,
                 closeReq, subscribed, authFailed, authSocket, authChannel,
                 subChannel, wsCountVars, pollCountVars, histVars>>

\* deapi_websocket.py:54, 58: ws.close() in on_message; run_forever then
\* leaves its loop.
MsgClose ==
  /\ lpc = "msg_close"
  /\ closeReq' = TRUE
  /\ conn' = "closed"
  /\ lpc' = "teardown"
  /\ UNCHANGED <<genVars, configVars, callerVars, clockVars, sharedVars, subscribed,
                 authFailed, authSocket, authChannel, subChannel, wsCountVars, pollCountVars, histVars>>

\* The remote peer closes the connection.
RemoteClose ==
  /\ lpc = "open"
  /\ conn = "open"
  /\ conn' = "closed"
  /\ lpc' = "teardown"
  /\ UNCHANGED <<genVars, configVars, callerVars, clockVars, sharedVars, closeReq,
                 subscribed, authFailed, authSocket, authChannel, subChannel, wsCountVars,
                 pollCountVars, histVars>>

\* The connection breaks.
NetError ==
  /\ lpc = "open"
  /\ conn = "open"
  /\ conn' = "closed"
  /\ lpc' = "on_error"
  /\ UNCHANGED <<genVars, configVars, callerVars, clockVars, sharedVars, closeReq,
                 subscribed, authFailed, authSocket, authChannel, subChannel, wsCountVars,
                 pollCountVars, histVars>>

\* run_forever finds the connection closed by the caller (line 85) and
\* leaves its loop: close() is the library's orderly shutdown, after which
\* it calls on_close and not on_error.
OwnerCloseSeen ==
  /\ lpc = "open"
  /\ conn = "closed"
  /\ lpc' = "teardown"
  /\ UNCHANGED <<genVars, configVars, callerVars, clockVars, sharedVars, conn, closeReq,
                 subscribed, authFailed, authSocket, authChannel, subChannel, wsCountVars,
                 pollCountVars, histVars>>

\* deapi_websocket.py:62-64
OnError ==
  /\ lpc = "on_error"
  /\ Signal("on_error")
  /\ lpc' = "teardown"
  /\ UNCHANGED <<genVars, configVars, callerVars, clockVars, result_holder, ws_ref, conn,
                 closeReq, subscribed, authFailed, authSocket, authChannel, subChannel, wsCountVars,
                 pollCountVars, rtOutcome, doneMsg, nSubmit, nImgGet>>

\* An on_close that takes every close for a failure and drops the result.
OnCloseClearsResult ==
  /\ lpc = "teardown"
  /\ Signal("on_close")
  /\ result_holder' = None
  /\ lpc' = "exited"
  /\ UNCHANGED <<genVars, configVars, callerVars, clockVars, ws_ref, conn,
                 closeReq, subscribed, authFailed, authSocket, authChannel,
                 subChannel, wsCountVars, pollCountVars, rtOutcome, doneMsg,
                 nSubmit, nImgGet>>

\* deapi_websocket.py:66-67
OnClose ==
  /\ lpc = "teardown"
  /\ Signal("on_close")
  /\ lpc' = "exited"
  /\ UNCHANGED <<genVars, configVars, callerVars, clockVars, result_holder, ws_ref, conn,
                 closeReq, subscribed, authFailed, authSocket, authChannel, subChannel, wsCountVars,
                 pollCountVars, rtOutcome, doneMsg, nSubmit, nImgGet>>

ListenerNext ==
  \/ Register
  \/ \E outcome \in ConnectOutcomes : Connect(outcome)
  \/ \E m \in Messages, auth \in PlainResponses : OnMessage(m, auth)
  \/ MsgSignal
  \/ MsgClose
  \/ RemoteClose
  \/ NetError
  \/ OwnerCloseSeen
  \/ OnError
  \/ OnClose

Next == CallerNext \/ ListenerNext

Spec == Init /\ [][Next]_vars

\* Polling alone: no client_id is configured, and the service may answer
\* "processing" up to MaxPending times before its final answer.
PollInit == Init /\ ~UseRealtime(client_id)

PollNext ==
  \/ NoApiKey
  \/ \E resp \in SubmitResponses : Submit(resp)
  \/ SkipRealtime
  \/ \E x \in PollInputs(0..MaxPending) : PollForResult(x[1], x[2], x[3])

PollSpec == PollInit /\ [][PollNext]_vars

\* The caller's thread is scheduled, its blocking calls return (every HTTP
\* call carries a timeout) and the clock advances.
FairSpec == Spec /\ WF_vars(CallerNext)

\* ------------------------------------------------------------ generate_image

\* Values of the illustrationProvider setting; "absent" is a missing key.
ProviderSettings == {"absent", "deapi", "huggingface"}

\* registry.py:17-19  ILLUSTRATION_PROVIDERS
ILLUSTRATION_PROVIDERS == {"deapi"}

\* image_album.py:256  settings.get("illustrationProvider", "deapi")
ProviderId(setting) == IF setting = "absent" THEN "deapi" ELSE setting

\* registry.py:22-45  get_illustration_provider: the provider's class name,
\* or None for an unknown id or when the constructor raised.
GetIllustrationProvider(provider_id, ctorRaised) ==
  IF provider_id \notin ILLUSTRATION_PROVIDERS THEN None
  ELSE IF ctorRaised THEN None
  ELSE [cls |-> provider_id]

\* base.py:40-44  is_configured (requires_api_key is True for deAPI)
IsConfigured(raw) == ~raw.isNone /\ Truthy(raw.chars) /\ Truthy(Strip(raw.chars))

\* A caller that takes whatever to_illustration returned.
IllustratedAlways(out) == TRUE

\* image_album.py:264  if illustrated:
Illustrated(out) == out # None

\* image_album.py:255-262, 283-284: with a photo and the conversion switched
\* on, build the provider (registry.py passes the api_key and no client_id)
\* and call to_illustration when it is there and configured.
BeginIllustration(ctorRaised) ==
  /\ gpc = "loaded"
  /\ IF photo # None /\ convertToIllustration
       THEN \E prov \in {GetIllustrationProvider(ProviderId(illustrationProvider),
                                                 ctorRaised)} :
              /\ IF prov # None
                   THEN /\ api_key' = Configured(rawApiKey)
                        /\ client_id' = Configured(rawClientId)
                   ELSE UNCHANGED <<api_key, client_id>>
              /\ IF prov # None /\ IsConfigured(rawApiKey)
                   THEN gpc' = "illustrating" /\ pc' = "start"
                   ELSE gpc' = "check" /\ UNCHANGED pc
       ELSE /\ ~ctorRaised
            /\ gpc' = "check"
            /\ UNCHANGED <<api_key, client_id, pc>>
  /\ UNCHANGED <<convertToIllustration, illustrationProvider, photo, album_img,
                 rawApiKey, rawClientId, request_id, ws_result, out_img,
                 retReason, clockVars, sharedVars, listenerVars, wsCountVars,
                 pollCountVars, histVars>>

\* image_album.py:263-282: to_illustration has returned; its image, resized,
\* replaces the photo, and None leaves the photo in place.
TakeIllustration ==
  /\ gpc = "illustrating"
  /\ pc = "returned"
  /\ album_img' = IF Illustrated(out_img) THEN out_img ELSE album_img
  /\ gpc' = "check"
  /\ UNCHANGED <<convertToIllustration, illustrationProvider, photo,
                 configVars, callerVars, clockVars, sharedVars, listenerVars,
                 wsCountVars, pollCountVars, histVars>>

\* image_album.py:286-295: without an image generate_image raises.
CheckImage ==
  /\ gpc = "check"
  /\ gpc' = IF album_img = None THEN "raised" ELSE "done"
  /\ UNCHANGED <<convertToIllustration, illustrationProvider, photo, album_img,
                 configVars, callerVars, clockVars, sharedVars, listenerVars,
                 wsCountVars, pollCountVars, histVars>>

\* generate_image has loaded a photo (or failed to) and read its settings;
\* no provider exists yet and to_illustration has not been called.
GenInit ==
  /\ gpc = "loaded"
  /\ convertToIllustration \in BOOLEAN
  /\ illustrationProvider \in ProviderSettings
  /\ photo \in {None, Image("photo")}
  /\ album_img = photo
  /\ rawApiKey \in RawStrings
  /\ rawClientId = NoneStr
  /\ api_key = <<>>
  /\ client_id = <<>>
  /\ pc = "idle"
  /\ request_id = ""
  /\ ws_result = None
  /\ out_img = None
  /\ retReason = ""
  /\ now = 0 /\ submittedAt = 0 /\ waitDeadline = 0 /\ pollStart = 0
  /\ result_holder = None /\ done = FALSE /\ ws_ref = FALSE
  /\ lpc = "idle" /\ conn = "none" /\ closeReq = FALSE
  /\ subscribed = FALSE /\ authFailed = FALSE /\ authSocket = ""
  /\ authChannel = <<>> /\ subChannel = <<>>
  /\ firstSignal = "" /\ rtOutcome = "" /\ doneMsg = None
  /\ pollInvoked = FALSE /\ pollRid = "" /\ pollInput = None
  /\ nSubmit = 0 /\ nConnect = 0 /\ nIgnored = 0
  /\ nAuthReq = 0 /\ nSubscribe = 0
  /\ nStatusReq = 0 /\ nSleeps = 0 /\ nPending = 0 /\ nImgGet = 0
  /\ lastReqElapsed = 0 /\ lastStatusUrl = NoUrl

\* generate_image's illustration step: the registry configures no
\* client_id, so to_illustration goes from the submission to the polling.
GenNext ==
  \/ \E ctorRaised \in BOOLEAN : BeginIllustration(ctorRaised)
  \/ \E resp \in SubmitResponses : Submit(resp)
  \/ SkipRealtime
  \/ \E x \in PollInputs(PendingRuns) : PollForResult(x[1], x[2], x[3])
  \/ TakeIllustration
  \/ CheckImage

GenSpec == GenInit /\ [][GenNext]_vars

\* ---------------------------------------------------------------- claims

\* The caller has left wait_for_result.
PastWait == pc \in {"after_ws", "poll_start", "returned"}

\* An absent, empty or whitespace-only configured string.
IsBlank(raw) ==
  raw.isNone \/ \A i \in 1..Len(raw.chars) : raw.chars[i] = " "

\* C11: when the illustration step did not give an image (no conversion
\* result: unknown or unconfigured provider, a failed submission, an
\* exception, a failed, timed out or errored job), generate_image goes on
\* with the photo it loaded and does not raise.
C11_FallsBackToPhoto ==
  (/\ gpc \in {"check", "done", "raised"}
   /\ photo # None
   /\ convertToIllustration
   /\ ~(pc = "returned" /\ out_img # None))
  => (album_img = photo /\ gpc # "raised")

\* The polled job reported an error and generate_image finished with the photo.
C11_Witness ==
  /\ gpc = "done"
  /\ convertToIllustration
  /\ pc = "returned"
  /\ retReason = "poll_job_error"
  /\ album_img = photo

\* C12: once the Event done is set, no callback changes result_holder, and
\* the caller woken by the Event reads the value that was there at the first
\* signal: the payload of the done event, or None.
C12_ResultFixedAtSignal ==
  /\ [][done => result_holder' = result_holder]_vars
  /\ []((PastWait /\ rtOutcome \in {"Done", "Failed", "Unavailable"}) =>
          /\ ws_result = result_holder
          /\ ws_result = IF firstSignal = "done_event" THEN doneMsg ELSE None)

\* The done event signalled first, on_close signalled again afterwards, and
\* the caller holds the payload of the done event.
C12_Witness ==
  /\ firstSignal = "done_event"
  /\ lpc = "exited"
  /\ PastWait
  /\ ws_result # None
  /\ ws_result = result_holder

\* A status event of the awaited job, read off the frame itself.
Awaited(m) ==
  /\ m.event = "request.status.updated"
  /\ ~m.badData
  /\ m.data.request_id = request_id

\* C13: a frame that is no status event of the awaited job (another event
\* type, undecodable data, a done or error event of another job) leaves
\* result_holder, the Event done, the connection and the listener's position
\* as they are.
C13_NonMatchingIgnored ==
  [][\/ UNCHANGED <<result_holder, done, firstSignal, conn, closeReq, lpc>>
     \/ \A m \in Messages, auth \in PlainResponses :
          Awaited(m) \/ ~OnMessage(m, auth)]_vars

\* MaxMsgs frames that are not of the awaited job were handled, and the
\* listener still waits on its open connection.
C13_Witness ==
  /\ nIgnored = MaxMsgs
  /\ lpc = "open"
  /\ conn = "open"
  /\ ~done
  /\ result_holder = None
  /\ pc = "waiting"

\* C14: a subscribe message is sent only in the handling of a
\* pusher:connection_established frame with a non-empty socket_id, after the
\* authentication request made with that socket_id and the channel
\* private-client.{client_id} answered 200, and for that same channel.
C14_SubscribeAfterAuth ==
  /\ [][nSubscribe' # nSubscribe =>
          \E m \in Messages, auth \in PlainResponses :
            /\ m.event = "pusher:connection_established"
            /\ m.socket_id # ""
            /\ ~auth.raised /\ auth.code = 200
            /\ OnMessage(m, auth)
            /\ nAuthReq' = nAuthReq + 1
            /\ authSocket' = m.socket_id
            /\ authChannel' = <<"private-client.">> \o client_id
            /\ subChannel' = authChannel'
            /\ authFailed' = authFailed]_vars
  /\ [](nSubscribe <= nAuthReq)
  /\ [](subscribed = (nSubscribe > 0))

\* The first authentication was refused and sent no subscribe message; the
\* second one succeeded and the subscribe message followed.
C14_Witness ==
  /\ authFailed
  /\ subscribed
  /\ nAuthReq = 2
  /\ nSubscribe = 1
  /\ subChannel = <<"private-client.", "k">>

\* C15: once a status event of the awaited job with status done or error
\* has signalled the Event, the handler is at its ws.close() or the
\* connection is closed at the owner's request; the handler's next step is
\* that close, whatever the remote peer does.
C15_ClosesOnResolved ==
  /\ [](firstSignal \in {"done_event", "error_event"} =>
          (lpc = "msg_close" \/ (closeReq /\ conn = "closed")))
  /\ [][(lpc = "msg_close" /\ lpc' # lpc) =>
          (closeReq' /\ conn' = "closed" /\ lpc' = "teardown")]_vars

\* An error event resolved the listener, which closed the connection itself
\* while the caller had not yet come back from its wait.
C15_Witness ==
  /\ firstSignal = "error_event"
  /\ lpc = "teardown"
  /\ conn = "closed"
  /\ closeReq
  /\ pc = "waiting"

PolledWithin ==
  /\ pc = "returned"
  /\ pollInvoked
  /\ pollInput.n * POLL_INTERVAL < MAX_WAIT_TIME

\* C17: the first status response with a non-success HTTP status ends
\* _poll_for_result with None: it was the last status request, no sleep
\* followed it and no result URL was fetched; likewise a non-success answer
\* to the GET of the result URL ends it with None after that one GET.
C17_PollHttpErrorIsFatal ==
  /\ (PolledWithin /\ ~pollInput.term.raised /\ pollInput.term.code # 200) =>
       /\ retReason = "poll_http"
       /\ out_img = None
       /\ nStatusReq = pollInput.n + 1
       /\ nSleeps = pollInput.n
       /\ nImgGet = 0
       /\ now = pollStart + pollInput.n * POLL_INTERVAL
  /\ (PolledWithin /\ FetchesImage(pollInput.term)
      /\ ~pollInput.imgResp.raised /\ pollInput.imgResp.code # 200) =>
       /\ retReason = "poll_img_http"
       /\ out_img = None
       /\ nStatusReq = pollInput.n + 1
       /\ nSleeps = pollInput.n
       /\ nImgGet = 1
       /\ now = pollStart + pollInput.n * POLL_INTERVAL

\* Two "processing" answers, then a 500 on the third status request.
C17_Witness ==
  /\ PolledWithin
  /\ pollInput.n = 2
  /\ pollInput.term.code = 500
  /\ retReason = "poll_http"
  /\ nStatusReq = 3
  /\ nSleeps = 2

\* C18: a status response reporting "error" ends _poll_for_result with None
\* at once: it was the last status request, no sleep followed it and no
\* result URL was fetched.
C18_PollJobErrorIsFatal ==
  (PolledWithin /\ ~pollInput.term.raised /\ pollInput.term.code = 200
   /\ pollInput.term.status = "error") =>
    /\ retReason = "poll_job_error"
    /\ out_img = None
    /\ nStatusReq = pollInput.n + 1
    /\ nSleeps = pollInput.n
    /\ nImgGet = 0
    /\ now = pollStart + pollInput.n * POLL_INTERVAL

\* One "processing" answer, then "error" on the second status request.
C18_Witness ==
  /\ PolledWithin
  /\ pollInput.n = 1
  /\ retReason = "poll_job_error"
  /\ nStatusReq = 2
  /\ nSleeps = 1

\* C19: no status request is made MAX_WAIT_TIME or more after the start of
\* the polling, so their number is bounded and the loop ends; when every
\* status response was "processing", _poll_for_result returns None for a
\* timeout, the deadline having passed.
C19_PollTimesOut ==
  /\ pollInvoked =>
       /\ lastReqElapsed < MAX_WAIT_TIME
       /\ nStatusReq <= (MAX_WAIT_TIME + POLL_INTERVAL - 1) \div POLL_INTERVAL
       /\ pc = "returned"
       /\ retReason # ""
  /\ (pollInvoked /\ nPending = nStatusReq) =>
       /\ retReason = "poll_timeout"
       /\ out_img = None
       /\ now - pollStart >= MAX_WAIT_TIME

\* The service answered "processing" to every request until the deadline.
C19_Witness ==
  /\ pollInvoked
  /\ retReason = "poll_timeout"
  /\ nPending = nStatusReq
  /\ nStatusReq = MAX_WAIT_TIME \div POLL_INTERVAL
  /\ lastReqElapsed = MAX_WAIT_TIME - POLL_INTERVAL

\* C20: a call makes one submission request at most, and exactly one once it
\* is past the api_key check; when the submission gave no request_id (a
\* non-success status, a body without request_id, an exception) the call
\* has returned None without a listener, a connection or a status request.
C20_SingleSubmission ==
  /\ nSubmit <= 1
  /\ (pc # "start" /\ Truthy(api_key)) => nSubmit = 1
  /\ (pc # "start" /\ request_id = "") =>
       /\ pc = "returned"
       /\ out_img = None
       /\ retReason \in {"no_api_key", "exception", "submit_http", "no_request_id"}
       /\ lpc = "idle" /\ nConnect = 0
       /\ ~pollInvoked /\ nStatusReq = 0

\* With a client_id configured, the submission answered 500 and the call
\* returned at once.
C20_Witness ==
  /\ pc = "returned"
  /\ retReason = "submit_http"
  /\ nSubmit = 1
  /\ Truthy(client_id)
  /\ lpc = "idle"

\* C21: when the wait ended with the payload of a done event that cannot be
\* used (no result_url, or the GET of the result URL answered a non-200
\* status), to_illustration goes on to _poll_for_result, which asks the
\* status endpoint about the same request_id.
C21_UnusableDoneIsPolled ==
  /\ [][(pc = "after_ws" /\ rtOutcome = "Done" /\ ~HasResultUrl(ws_result)
          /\ pc' # pc) =>
          (pc' = "poll_start" /\ nImgGet' = nImgGet)]_vars
  /\ [][\A imgResp \in PlainResponses :
          (/\ rtOutcome = "Done" /\ HasResultUrl(ws_result)
           /\ ~imgResp.raised /\ imgResp.code # 200
           /\ AfterWs(imgResp)) =>
          (pc' = "poll_start" /\ nImgGet' = nImgGet + 1)]_vars
  /\ [][(pc = "poll_start" /\ pc' # pc) =>
          (pollInvoked' /\ pollRid' = request_id /\ nStatusReq' >= 1)]_vars

\* The job was reported done over the WebSocket, the GET of its result URL
\* failed, and the polling then fetched the image.
C21_Witness ==
  /\ pc = "returned"
  /\ rtOutcome = "Done"
  /\ HasResultUrl(ws_result)
  /\ pollInvoked
  /\ nImgGet = 2
  /\ retReason = "poll_image"

\* C22: the payload of a done event of the awaited job is in result_holder
\* when the Event is set, so a caller woken by that signal reads the
\* payload and never None.
C22_PayloadStoredBeforeSignal ==
  /\ (done /\ firstSignal = "done_event") =>
       (result_holder # None /\ result_holder = doneMsg)
  /\ (PastWait /\ rtOutcome = "Done") => ws_result # None

\* The caller was woken and has read the payload while the handler has not
\* yet gone on to its ws.close().
C22_Witness ==
  /\ pc = "after_ws"
  /\ rtOutcome = "Done"
  /\ lpc = "msg_close"
  /\ conn = "open"
  /\ ws_result # None

\* C23: a frame whose handling raises (an undecodable frame or data field,
\* an exception of the authentication request) changes neither
\* result_holder nor the Event nor the connection, sends no subscribe
\* message, and leaves the listener dispatching later frames.
C23_HandlerExceptionSwallowed ==
  [][\/ /\ UNCHANGED <<result_holder, done, firstSignal, conn, closeReq,
                       subscribed, nSubscribe>>
        /\ lpc' = "open"
     \/ \A m \in Messages, auth \in PlainResponses :
          ~HandlerRaises(m, auth) \/ ~OnMessage(m, auth)]_vars

\* The authentication request raised: nothing was subscribed, nothing was
\* signalled, and the listener still waits on its open connection.
C23_Witness ==
  /\ nAuthReq = 1
  /\ ~authFailed
  /\ ~subscribed
  /\ lpc = "open"
  /\ conn = "open"
  /\ ~done
  /\ result_holder = None

\* C24: with an absent, empty or whitespace-only api_key, to_illustration
\* has returned None as soon as it has left its first check, without a
\* submission, a listener, a connection, an authentication request, a status
\* request or a GET of an image.
C24_NoKeyNoNetwork ==
  (IsBlank(rawApiKey) /\ pc # "start") =>
    /\ pc = "returned"
    /\ out_img = None
    /\ retReason = "no_api_key"
    /\ nSubmit = 0
    /\ lpc = "idle" /\ conn = "none" /\ nConnect = 0 /\ nAuthReq = 0
    /\ ~pollInvoked /\ nStatusReq = 0 /\ nImgGet = 0

\* A whitespace-only api_key with a client_id configured: the call returned
\* at its first check.
C24_Witness ==
  /\ rawApiKey = Str(<<" ">>)
  /\ Truthy(client_id)
  /\ pc = "returned"
  /\ retReason = "no_api_key"
  /\ nSubmit = 0

\* C1: once the real-time path has produced a terminal result for the job (a
\* matching done event, a matching error event, or the expiry of the wait),
\* _poll_for_result is never invoked.
C1_NoPollAfterTerminal ==
  rtOutcome \in {"Done", "Failed", "TimedOut"} => ~pollInvoked

\* C2: after a successful submission to_illustration eventually returns, and
\* it returns once: the outcome, an image or None, never changes afterwards.
C2_ReturnsExactlyOnce ==
  /\ (pc = "submitted") ~> (pc = "returned")
  /\ [](pc = "returned" => out_img \in {None} \cup {Image(u) : u \in Urls})
  /\ [][pc = "returned" =>
          (pc' = "returned" /\ out_img' = out_img /\ retReason' = retReason)]_vars

\* The call returned after the wait and the polling both ran out of time.
C2_Witness ==
  pc = "returned" /\ rtOutcome = "TimedOut" /\ retReason = "poll_timeout"

\* C3: after a matching error event resolved the job to Failed, no status
\* request is issued and no further connection is opened.
C3_ErrorEventIsFinal ==
  rtOutcome = "Failed" => (nStatusReq = 0 /\ nConnect <= 1)

\* C4: once the channel authentication got a non-success response, the wait
\* of wait_for_result is over: no time passes while the caller still waits.
C4_AuthFailureEndsWait ==
  [][(authFailed /\ pc = "waiting") => now' = now]_vars

\* C5: the time spent waiting for a job, over the listener and the polling
\* together, never exceeds MAX_WAIT_TIME from the submission.
C5_WaitWithinDeadline ==
  pc # "start" => now - submittedAt <= MAX_WAIT_TIME

\* C6: after the wait ended by expiry of its deadline and wait_for_result
\* has returned, the connection is not open.
C6_ClosedAfterTimeout ==
  (rtOutcome = "TimedOut" /\ PastWait) => conn # "open"

\* C7: when a status event of the awaited job with status done was
\* delivered and the wait did not expire, wait_for_result returns the payload
\* of that event, with its result_url, whatever other events came before;
\* and a wait resolved as Done returns the payload of such an event.
C7_MatchingDoneReturned ==
  /\ (PastWait /\ doneMsg # None /\ rtOutcome # "TimedOut") =>
       (rtOutcome = "Done" /\ ws_result = doneMsg)
  /\ (PastWait /\ rtOutcome = "Done") =>
       /\ doneMsg # None
       /\ ws_result = doneMsg
       /\ ws_result.request_id = request_id
       /\ ws_result.status = "done"

\* wait_for_result returned the done event's payload with a result URL after
\* MaxMsgs other events had been delivered and ignored.
C7_Witness ==
  /\ pc = "after_ws"
  /\ rtOutcome = "Done"
  /\ nIgnored = MaxMsgs
  /\ ws_result # None
  /\ ws_result.result_url = "u2"

\* C8: when the real-time path ended Unavailable (connection failure or
\* error, remote close), or the channel authentication had failed and the
\* wait gave no result, to_illustration polled for the same request_id.
C8_UnavailableThenPolling ==
  (pc = "returned"
   /\ (rtOutcome = "Unavailable" \/ (authFailed /\ rtOutcome # "" /\ ws_result = None)))
  => (pollInvoked /\ pollRid = request_id /\ nStatusReq >= 1)

\* The real-time path was unavailable and the polling returned an image.
C8_Witness ==
  pc = "returned" /\ rtOutcome = "Unavailable" /\ retReason = "poll_image"

\* C9: when the status endpoint answers n times "processing" and then done
\* with a result URL that can be fetched, and the (n+1)-th request falls
\* within the deadline, _poll_for_result returns the image of that URL after
\* exactly n+1 status requests and n sleeps of POLL_INTERVAL.
C9_PendingThenDone ==
  (/\ pc = "returned"
   /\ pollInvoked
   /\ FetchesImage(pollInput.term)
   /\ pollInput.imgResp = OkResponse
   /\ pollInput.n * POLL_INTERVAL < MAX_WAIT_TIME)
  => /\ retReason = "poll_image"
     /\ out_img = Image(pollInput.term.result_url)
     /\ nStatusReq = pollInput.n + 1
     /\ nSleeps = pollInput.n
     /\ now = pollStart + pollInput.n * POLL_INTERVAL

\* Three "processing" answers, then done on the fourth request.
C9_Witness ==
  /\ pc = "returned"
  /\ pollInvoked
  /\ pollInput.n = 3
  /\ retReason = "poll_image"
  /\ nStatusReq = 4
  /\ nSleeps = 3

\* C10: with a blank client_id no listener is started and no connection is
\* opened; with a non-blank one wait_for_result has been called once the
\* submission is behind, and has returned before any polling.
C10_RealtimeIffClientId ==
  /\ IsBlank(rawClientId) => (lpc = "idle" /\ nConnect = 0 /\ rtOutcome = "")
  /\ (~IsBlank(rawClientId) /\ pc \in {"waiting", "ws_read", "ws_timedout",
                                       "after_ws", "poll_start"})
       => lpc # "idle"
  /\ (~IsBlank(rawClientId) /\ pollInvoked) => (lpc # "idle" /\ rtOutcome # "")

\* A whitespace-only client_id: the job was polled without any listener.
C10_Witness ==
  /\ rawClientId = Str(<<" ">>)
  /\ pc = "returned"
  /\ pollInvoked
  /\ lpc = "idle"

====
